---- MODULE Spec2Model ----
(***************************************************************************)
(* IntegraChain: the IntegrityRegistry contract as a state machine.        *)
(*                                                                         *)
(* State: the private mapping `records` (bytes32 => Record), the event log *)
(* of the contract (HashRegistered / HashRevoked, in commit order), the    *)
(* block timestamp, and a history variable describing the last external    *)
(* call (its arguments, its outcome and the state it was applied to).      *)
(* `ui` is the React state of the front end of one browser session.        *)
(* Every external call is one atomic step: the host serialises             *)
(* transactions and a failed require reverts the whole call.               *)
(***************************************************************************)
EXTENDS Integers, Sequences, FiniteSets, TLC

VARIABLES records, events, now, lastCall, ui

vars == <<records, events, now, lastCall, ui>>

(***************************************************************************)
(* Bounds of the model.                                                    *)
(***************************************************************************)
\* block.timestamp ranges over 1..MaxTime.
MaxTime == 2

(***************************************************************************)
(* Values.                                                                 *)
(***************************************************************************)
\* bytes32(0) and address(0).
ZeroHash == 0
ZeroAddress == 0
\* bytes32(0) and the hashes of two files.
Hashes == {ZeroHash, 1, 2}
\* Two externally owned accounts; msg.sender is never address(0).
Senders == {1, 2}

\* The length bound of registerHash's third require.
MaxNoteBytes == 80

\* A note is a string, modelled run-length encoded: a sequence of runs
\* <<cp, n>>, each standing for n consecutive copies of the code point cp.
Run(cp, n) == <<cp, n>>
EmptyNote == <<>>
NoteAscii80 == <<Run(97, MaxNoteBytes)>>
NoteAscii81 == <<Run(97, MaxNoteBytes + 1)>>
Notes == {EmptyNote, NoteAscii80, NoteAscii81}

\* Number of bytes of one code point in the UTF-8 encoding of a Solidity string.
Utf8Width(cp) ==
    IF cp < 128 THEN 1
    ELSE IF cp < 2048 THEN 2
    ELSE IF cp < 65536 THEN 3
    ELSE 4

\* bytes(note).length
RECURSIVE BytesLength(_)
BytesLength(note) ==
    IF note = <<>> THEN 0
    ELSE Head(note)[2] * Utf8Width(Head(note)[1]) + BytesLength(Tail(note))

\* uint64(block.timestamp).  The cast truncates to 64 bits; every timestamp of
\* the model is in 1..MaxTime, far below 2^64, where truncation keeps the value.
Uint64(t) == t

\* The revert strings of the contract.
ErrZeroHash == "Hash cannot be zero"
ErrAlreadyRegistered == "Hash already registered"
ErrNoteTooLong == "Note too long (max 80 chars)"
ErrNotRegistered == "Hash not registered"
ErrNotOwner == "Only owner can revoke"
ErrAlreadyRevoked == "Hash already revoked"
NoError == ""

\* struct Record, and the value of a mapping slot never written.
Record(owner, timestamp, note, exists, revoked) ==
    [owner |-> owner, timestamp |-> timestamp, note |-> note,
     exists |-> exists, revoked |-> revoked]

DefaultRecord == Record(ZeroAddress, 0, EmptyNote, FALSE, FALSE)

\* event HashRegistered(owner, hash, timestamp, note)
HashRegistered(owner, hash, timestamp, note) ==
    [type |-> "HashRegistered", owner |-> owner, hash |-> hash,
     timestamp |-> timestamp, note |-> note]

\* event HashRevoked(owner, hash, timestamp)
HashRevoked(owner, hash, timestamp) ==
    [type |-> "HashRevoked", owner |-> owner, hash |-> hash,
     timestamp |-> timestamp]

(***************************************************************************)
(* The contract's functions, as functions of the state they run on.  Each  *)
(* returns the outcome of the call: ok / error, and the mapping and the    *)
(* log the call leaves behind.                                             *)
(***************************************************************************)
Revert(recs, evs, msg) ==
    [ok |-> FALSE, error |-> msg, records |-> recs, events |-> evs]

Return(recs, evs) ==
    [ok |-> TRUE, error |-> NoError, records |-> recs, events |-> evs]

(***************************************************************************)
(* Faulty variants of the two functions, each a slip the code could have   *)
(* made.  The properties below are checked to tell the code from them.     *)
(***************************************************************************)
\* The existence check lets the stored owner register again.
registerHash_OwnerMayOverwrite(recs, evs, sender, timestamp, hash, note) ==
    IF ~(hash # ZeroHash) THEN Revert(recs, evs, ErrZeroHash)
    ELSE IF ~(~recs[hash].exists \/ recs[hash].owner = sender)
         THEN Revert(recs, evs, ErrAlreadyRegistered)
    ELSE IF ~(BytesLength(note) <= MaxNoteBytes) THEN Revert(recs, evs, ErrNoteTooLong)
    ELSE Return(
        [recs EXCEPT ![hash] = Record(sender, Uint64(timestamp), note, TRUE, FALSE)],
        Append(evs, HashRegistered(sender, hash, Uint64(timestamp), note)))

\* The existence check lets a revoked hash be registered again.
registerHash_ReRegisterRevoked(recs, evs, sender, timestamp, hash, note) ==
    IF ~(hash # ZeroHash) THEN Revert(recs, evs, ErrZeroHash)
    ELSE IF ~(~recs[hash].exists \/ recs[hash].revoked)
         THEN Revert(recs, evs, ErrAlreadyRegistered)
    ELSE IF ~(BytesLength(note) <= MaxNoteBytes) THEN Revert(recs, evs, ErrNoteTooLong)
    ELSE Return(
        [recs EXCEPT ![hash] = Record(sender, Uint64(timestamp), note, TRUE, FALSE)],
        Append(evs, HashRegistered(sender, hash, Uint64(timestamp), note)))

\* The record is stored before the note bound is checked, and the failure is
\* signalled without undoing the write.
registerHash_WriteBeforeNoteCheck(recs, evs, sender, timestamp, hash, note) ==
    IF ~(hash # ZeroHash) THEN Revert(recs, evs, ErrZeroHash)
    ELSE IF ~(~recs[hash].exists) THEN Revert(recs, evs, ErrAlreadyRegistered)
    ELSE IF ~(BytesLength(note) <= MaxNoteBytes)
         THEN Revert(
            [recs EXCEPT ![hash] = Record(sender, Uint64(timestamp), note, TRUE, FALSE)],
            evs, ErrNoteTooLong)
    ELSE Return(
        [recs EXCEPT ![hash] = Record(sender, Uint64(timestamp), note, TRUE, FALSE)],
        Append(evs, HashRegistered(sender, hash, Uint64(timestamp), note)))

\* The emit statement is missing.
registerHash_NoEvent(recs, evs, sender, timestamp, hash, note) ==
    IF ~(hash # ZeroHash) THEN Revert(recs, evs, ErrZeroHash)
    ELSE IF ~(~recs[hash].exists) THEN Revert(recs, evs, ErrAlreadyRegistered)
    ELSE IF ~(BytesLength(note) <= MaxNoteBytes) THEN Revert(recs, evs, ErrNoteTooLong)
    ELSE Return(
        [recs EXCEPT ![hash] = Record(sender, Uint64(timestamp), note, TRUE, FALSE)],
        evs)

\* The note bound is strict: < 80 instead of <= 80.
registerHash_StrictNoteBound(recs, evs, sender, timestamp, hash, note) ==
    IF ~(hash # ZeroHash) THEN Revert(recs, evs, ErrZeroHash)
    ELSE IF ~(~recs[hash].exists) THEN Revert(recs, evs, ErrAlreadyRegistered)
    ELSE IF ~(BytesLength(note) < MaxNoteBytes) THEN Revert(recs, evs, ErrNoteTooLong)
    ELSE Return(
        [recs EXCEPT ![hash] = Record(sender, Uint64(timestamp), note, TRUE, FALSE)],
        Append(evs, HashRegistered(sender, hash, Uint64(timestamp), note)))

\* The owner comparison is inverted: != instead of ==.
revokeHash_OwnerInverted(recs, evs, sender, timestamp, hash) ==
    IF ~(hash # ZeroHash) THEN Revert(recs, evs, ErrZeroHash)
    ELSE IF ~(recs[hash].exists) THEN Revert(recs, evs, ErrNotRegistered)
    ELSE IF ~(recs[hash].owner # sender) THEN Revert(recs, evs, ErrNotOwner)
    ELSE IF ~(~recs[hash].revoked) THEN Revert(recs, evs, ErrAlreadyRevoked)
    ELSE Return(
        [recs EXCEPT ![hash].revoked = TRUE],
        Append(evs, HashRevoked(sender, hash, Uint64(timestamp))))

\* The owner check is missing.
revokeHash_NoOwnerCheck(recs, evs, sender, timestamp, hash) ==
    IF ~(hash # ZeroHash) THEN Revert(recs, evs, ErrZeroHash)
    ELSE IF ~(recs[hash].exists) THEN Revert(recs, evs, ErrNotRegistered)
    ELSE IF ~(~recs[hash].revoked) THEN Revert(recs, evs, ErrAlreadyRevoked)
    ELSE Return(
        [recs EXCEPT ![hash].revoked = TRUE],
        Append(evs, HashRevoked(sender, hash, Uint64(timestamp))))

\* The already-revoked check is missing: a second revocation succeeds.
revokeHash_NoRevokedCheck(recs, evs, sender, timestamp, hash) ==
    IF ~(hash # ZeroHash) THEN Revert(recs, evs, ErrZeroHash)
    ELSE IF ~(recs[hash].exists) THEN Revert(recs, evs, ErrNotRegistered)
    ELSE IF ~(recs[hash].owner = sender) THEN Revert(recs, evs, ErrNotOwner)
    ELSE Return(
        [recs EXCEPT ![hash].revoked = TRUE],
        Append(evs, HashRevoked(sender, hash, Uint64(timestamp))))

\* Revocation overwrites the record's timestamp with the time of revocation.
revokeHash_OverwritesTimestamp(recs, evs, sender, timestamp, hash) ==
    IF ~(hash # ZeroHash) THEN Revert(recs, evs, ErrZeroHash)
    ELSE IF ~(recs[hash].exists) THEN Revert(recs, evs, ErrNotRegistered)
    ELSE IF ~(recs[hash].owner = sender) THEN Revert(recs, evs, ErrNotOwner)
    ELSE IF ~(~recs[hash].revoked) THEN Revert(recs, evs, ErrAlreadyRevoked)
    ELSE Return(
        [recs EXCEPT ![hash].revoked = TRUE, ![hash].timestamp = Uint64(timestamp)],
        Append(evs, HashRevoked(sender, hash, Uint64(timestamp))))

\* The revocation event carries the record's registration timestamp.
revokeHash_EmitsRegistrationTime(recs, evs, sender, timestamp, hash) ==
    IF ~(hash # ZeroHash) THEN Revert(recs, evs, ErrZeroHash)
    ELSE IF ~(recs[hash].exists) THEN Revert(recs, evs, ErrNotRegistered)
    ELSE IF ~(recs[hash].owner = sender) THEN Revert(recs, evs, ErrNotOwner)
    ELSE IF ~(~recs[hash].revoked) THEN Revert(recs, evs, ErrAlreadyRevoked)
    ELSE Return(
        [recs EXCEPT ![hash].revoked = TRUE],
        Append(evs, HashRevoked(sender, hash, recs[hash].timestamp)))

\* The note bound is checked before the zero-hash check.
registerHash_NoteCheckFirst(recs, evs, sender, timestamp, hash, note) ==
    IF ~(BytesLength(note) <= MaxNoteBytes) THEN Revert(recs, evs, ErrNoteTooLong)
    ELSE IF ~(hash # ZeroHash) THEN Revert(recs, evs, ErrZeroHash)
    ELSE IF ~(~recs[hash].exists) THEN Revert(recs, evs, ErrAlreadyRegistered)
    ELSE Return(
        [recs EXCEPT ![hash] = Record(sender, Uint64(timestamp), note, TRUE, FALSE)],
        Append(evs, HashRegistered(sender, hash, Uint64(timestamp), note)))

\* The existence check is missing: the last writer wins.
registerHash_NoExistsCheck(recs, evs, sender, timestamp, hash, note) ==
    IF ~(hash # ZeroHash) THEN Revert(recs, evs, ErrZeroHash)
    ELSE IF ~(BytesLength(note) <= MaxNoteBytes) THEN Revert(recs, evs, ErrNoteTooLong)
    ELSE Return(
        [recs EXCEPT ![hash] = Record(sender, Uint64(timestamp), note, TRUE, FALSE)],
        Append(evs, HashRegistered(sender, hash, Uint64(timestamp), note)))

\* The note bound is off by one: 81 bytes pass.
registerHash_LooseNoteBound(recs, evs, sender, timestamp, hash, note) ==
    IF ~(hash # ZeroHash) THEN Revert(recs, evs, ErrZeroHash)
    ELSE IF ~(~recs[hash].exists) THEN Revert(recs, evs, ErrAlreadyRegistered)
    ELSE IF ~(BytesLength(note) <= MaxNoteBytes + 1) THEN Revert(recs, evs, ErrNoteTooLong)
    ELSE Return(
        [recs EXCEPT ![hash] = Record(sender, Uint64(timestamp), note, TRUE, FALSE)],
        Append(evs, HashRegistered(sender, hash, Uint64(timestamp), note)))

\* The note bound is not checked at all.
registerHash_NoNoteCheck(recs, evs, sender, timestamp, hash, note) ==
    IF ~(hash # ZeroHash) THEN Revert(recs, evs, ErrZeroHash)
    ELSE IF ~(~recs[hash].exists) THEN Revert(recs, evs, ErrAlreadyRegistered)
    ELSE Return(
        [recs EXCEPT ![hash] = Record(sender, Uint64(timestamp), note, TRUE, FALSE)],
        Append(evs, HashRegistered(sender, hash, Uint64(timestamp), note)))

\* The zero-hash check is missing.
registerHash_NoZeroCheck(recs, evs, sender, timestamp, hash, note) ==
    IF ~(~recs[hash].exists) THEN Revert(recs, evs, ErrAlreadyRegistered)
    ELSE IF ~(BytesLength(note) <= MaxNoteBytes) THEN Revert(recs, evs, ErrNoteTooLong)
    ELSE Return(
        [recs EXCEPT ![hash] = Record(sender, Uint64(timestamp), note, TRUE, FALSE)],
        Append(evs, HashRegistered(sender, hash, Uint64(timestamp), note)))

\* The struct literal leaves exists unset (false).
registerHash_ExistsNotSet(recs, evs, sender, timestamp, hash, note) ==
    IF ~(hash # ZeroHash) THEN Revert(recs, evs, ErrZeroHash)
    ELSE IF ~(~recs[hash].exists) THEN Revert(recs, evs, ErrAlreadyRegistered)
    ELSE IF ~(BytesLength(note) <= MaxNoteBytes) THEN Revert(recs, evs, ErrNoteTooLong)
    ELSE Return(
        [recs EXCEPT ![hash] = Record(sender, Uint64(timestamp), note, FALSE, FALSE)],
        Append(evs, HashRegistered(sender, hash, Uint64(timestamp), note)))

\* The emit statement of revokeHash is missing.
revokeHash_NoEvent(recs, evs, sender, timestamp, hash) ==
    IF ~(hash # ZeroHash) THEN Revert(recs, evs, ErrZeroHash)
    ELSE IF ~(recs[hash].exists) THEN Revert(recs, evs, ErrNotRegistered)
    ELSE IF ~(recs[hash].owner = sender) THEN Revert(recs, evs, ErrNotOwner)
    ELSE IF ~(~recs[hash].revoked) THEN Revert(recs, evs, ErrAlreadyRevoked)
    ELSE Return([recs EXCEPT ![hash].revoked = TRUE], evs)

\* The existence check of revokeHash is missing.
revokeHash_NoExistsCheck(recs, evs, sender, timestamp, hash) ==
    IF ~(hash # ZeroHash) THEN Revert(recs, evs, ErrZeroHash)
    ELSE IF ~(recs[hash].owner = sender) THEN Revert(recs, evs, ErrNotOwner)
    ELSE IF ~(~recs[hash].revoked) THEN Revert(recs, evs, ErrAlreadyRevoked)
    ELSE Return(
        [recs EXCEPT ![hash].revoked = TRUE],
        Append(evs, HashRevoked(sender, hash, Uint64(timestamp))))

\* getRecord returns the two flags in each other's place.
getRecord_FlagsSwapped(recs, hash) ==
    LET record == recs[hash]
    IN  <<record.revoked, record.owner, record.timestamp, record.note, record.exists>>

\* The note bound is checked before the existence check.
registerHash_NoteBeforeExists(recs, evs, sender, timestamp, hash, note) ==
    IF ~(hash # ZeroHash) THEN Revert(recs, evs, ErrZeroHash)
    ELSE IF ~(BytesLength(note) <= MaxNoteBytes) THEN Revert(recs, evs, ErrNoteTooLong)
    ELSE IF ~(~recs[hash].exists) THEN Revert(recs, evs, ErrAlreadyRegistered)
    ELSE Return(
        [recs EXCEPT ![hash] = Record(sender, Uint64(timestamp), note, TRUE, FALSE)],
        Append(evs, HashRegistered(sender, hash, Uint64(timestamp), note)))

\* The already-revoked check comes before the owner check.
revokeHash_RevokedBeforeOwner(recs, evs, sender, timestamp, hash) ==
    IF ~(hash # ZeroHash) THEN Revert(recs, evs, ErrZeroHash)
    ELSE IF ~(recs[hash].exists) THEN Revert(recs, evs, ErrNotRegistered)
    ELSE IF ~(~recs[hash].revoked) THEN Revert(recs, evs, ErrAlreadyRevoked)
    ELSE IF ~(recs[hash].owner = sender) THEN Revert(recs, evs, ErrNotOwner)
    ELSE Return(
        [recs EXCEPT ![hash].revoked = TRUE],
        Append(evs, HashRevoked(sender, hash, Uint64(timestamp))))

\* Revocation clears exists, as a delete would.
revokeHash_ClearsExists(recs, evs, sender, timestamp, hash) ==
    IF ~(hash # ZeroHash) THEN Revert(recs, evs, ErrZeroHash)
    ELSE IF ~(recs[hash].exists) THEN Revert(recs, evs, ErrNotRegistered)
    ELSE IF ~(recs[hash].owner = sender) THEN Revert(recs, evs, ErrNotOwner)
    ELSE IF ~(~recs[hash].revoked) THEN Revert(recs, evs, ErrAlreadyRevoked)
    ELSE Return(
        [recs EXCEPT ![hash].revoked = TRUE, ![hash].exists = FALSE],
        Append(evs, HashRevoked(sender, hash, Uint64(timestamp))))

\* The owner check carries the message copied from the line above it.
revokeHash_CopiedMessage(recs, evs, sender, timestamp, hash) ==
    IF ~(hash # ZeroHash) THEN Revert(recs, evs, ErrZeroHash)
    ELSE IF ~(recs[hash].exists) THEN Revert(recs, evs, ErrNotRegistered)
    ELSE IF ~(recs[hash].owner = sender) THEN Revert(recs, evs, ErrNotRegistered)
    ELSE IF ~(~recs[hash].revoked) THEN Revert(recs, evs, ErrAlreadyRevoked)
    ELSE Return(
        [recs EXCEPT ![hash].revoked = TRUE],
        Append(evs, HashRevoked(sender, hash, Uint64(timestamp))))

(***************************************************************************)
(* The functions as the contract has them.                                 *)
(***************************************************************************)
registerHash(recs, evs, sender, timestamp, hash, note) ==
    IF ~(hash # ZeroHash) THEN Revert(recs, evs, ErrZeroHash)
    ELSE IF ~(~recs[hash].exists) THEN Revert(recs, evs, ErrAlreadyRegistered)
    ELSE IF ~(BytesLength(note) <= MaxNoteBytes) THEN Revert(recs, evs, ErrNoteTooLong)
    ELSE Return(
        [recs EXCEPT ![hash] = Record(sender, Uint64(timestamp), note, TRUE, FALSE)],
        Append(evs, HashRegistered(sender, hash, Uint64(timestamp), note)))

revokeHash(recs, evs, sender, timestamp, hash) ==
    IF ~(hash # ZeroHash) THEN Revert(recs, evs, ErrZeroHash)
    ELSE IF ~(recs[hash].exists) THEN Revert(recs, evs, ErrNotRegistered)
    ELSE IF ~(recs[hash].owner = sender) THEN Revert(recs, evs, ErrNotOwner)
    ELSE IF ~(~recs[hash].revoked) THEN Revert(recs, evs, ErrAlreadyRevoked)
    ELSE Return(
        [recs EXCEPT ![hash].revoked = TRUE],
        Append(evs, HashRevoked(sender, hash, Uint64(timestamp))))

\* The view getRecord returns: (exists, owner, timestamp, note, revoked).
getRecord(recs, hash) ==
    LET record == recs[hash]
    IN  <<record.exists, record.owner, record.timestamp, record.note, record.revoked>>

NoReturn == <<>>

(***************************************************************************)
(* State of the front end (one browser session in front of the contract):  *)
(* the React state of RegisterPanel, RecordsPanel and VerifyPanel, the     *)
(* position of their pending async handlers, and the last toast shown.     *)
(***************************************************************************)
\* The account connected in the wallet of the session.
Me == 1

\* The files the user has at hand, and their SHA-256 digests.
Files == {"a.txt", "b.txt"}
computeFileHash(file) == IF file = "a.txt" THEN 1 ELSE 2

NoFile == "none"
NoHash == ZeroHash
NoTx == [hash |-> NoHash, note |-> EmptyNote]
NoMessage == [text |-> "", reason |-> NoError]
NoToast == [type |-> "none", title |-> "", message |-> NoMessage]
NoResult == [set |-> FALSE, exists |-> FALSE, owner |-> ZeroAddress,
             isOwner |-> FALSE, revoked |-> FALSE]
NoCertificate == [issued |-> FALSE, hash |-> NoHash, fileName |-> NoFile,
                  owner |-> ZeroAddress, status |-> "", verified |-> FALSE,
                  registered |-> FALSE, revoked |-> FALSE]

\* RegisterPanel after mount.  progressInterval tells, for each file, whether
\* an interval started by a processFile call for it is running (the steps of
\* the section on progress timers keep track of it).  task is the position of
\* the processFile call running for each file, tx the registerHash transaction sent and not yet
\* mined; calledRegistered remembers whether handleRegister ever called
\* registerHash for a hash that had a record.
RegisterPanelInit ==
    [file |-> NoFile, hashHex |-> NoHash, note |-> EmptyNote,
     isDuplicate |-> FALSE, isHashing |-> FALSE, isRegistering |-> FALSE,
     task |-> [f \in Files |-> "idle"], tx |-> NoTx,
     calledRegistered |-> FALSE,
     progressInterval |-> [f \in Files |-> FALSE]]

\* RecordsPanel after mount: the hashes listed with a Revoke button, and the
\* hash of the revokeHash transaction sent and not yet mined.
RecordsPanelInit == [mine |-> {}, tx |-> NoHash]

\* VerifyPanel after mount.  pending is the hash handleVerify is asking
\* getRecord about; seen is the view getRecord returned to the last completed
\* handleVerify; certificate is the last certificate downloaded, with the
\* state of its hash in the registry at that moment.  bulkFiles and results
\* are the argument and the local array of a running handleBulkVerify,
\* bulkInput the argument of the last one that completed.
VerifyPanelInit ==
    [file |-> NoFile, hashHex |-> NoHash, isHashing |-> FALSE,
     isVerifying |-> FALSE, task |-> [f \in Files |-> "idle"],
     pending |-> NoHash, verifyResult |-> NoResult,
     seen |-> [exists |-> FALSE, revoked |-> FALSE],
     bulkFiles |-> <<>>, results |-> <<>>, bulkInput |-> <<>>,
     bulkResults |-> <<>>, certificate |-> NoCertificate,
     progressInterval |-> [f \in Files |-> FALSE]]

\* The chain the app works on, and chainId before any connection (null).
LocalChainId == 31337
NoChainId == 0

\* App after mount, in front of a wallet that exposes no account: wallet is
\* the account the wallet exposes (ZeroAddress for none), checks the
\* checkConnection calls in flight, disconnected tells that the last wallet
\* event was an accountsChanged with no account and no connect followed.
AppInit ==
    [walletConnected |-> FALSE, address |-> ZeroAddress, chainId |-> NoChainId,
     wallet |-> ZeroAddress, checks |-> {}, disconnected |-> FALSE]

\* toast is the last toast shown, kind the registry failure it reports;
\* refreshTrigger is the counter of App that onSuccess increments.
UiInit ==
    [register |-> RegisterPanelInit, records |-> RecordsPanelInit,
     verify |-> VerifyPanelInit, toast |-> NoToast, kind |-> NoError,
     refreshTrigger |-> 0, app |-> AppInit]

(***************************************************************************)
(* Initial state and steps.                                                *)
(***************************************************************************)
NoCall ==
    [op |-> "none", sender |-> ZeroAddress, hash |-> ZeroHash, note |-> EmptyNote,
     time |-> 0, ok |-> TRUE, error |-> NoError, ret |-> NoReturn,
     preRecords |-> [h \in Hashes |-> DefaultRecord], preEvents |-> <<>>]

Init ==
    /\ records = [h \in Hashes |-> DefaultRecord]
    /\ events = <<>>
    /\ now = 1
    /\ lastCall = NoCall
    /\ ui = UiInit

\* A transaction calling registerHash(hash, note) from msg.sender = sender.
TxRegisterHash(sender, hash, note) ==
    LET out == registerHash(records, events, sender, now, hash, note)
    IN  /\ records' = out.records
        /\ events' = out.events
        /\ lastCall' = [op |-> "registerHash", sender |-> sender, hash |-> hash,
                        note |-> note, time |-> now, ok |-> out.ok,
                        error |-> out.error, ret |-> NoReturn,
                        preRecords |-> records, preEvents |-> events]
        /\ UNCHANGED <<now, ui>>

\* A transaction calling revokeHash(hash) from msg.sender = sender.
TxRevokeHash(sender, hash) ==
    LET out == revokeHash(records, events, sender, now, hash)
    IN  /\ records' = out.records
        /\ events' = out.events
        /\ lastCall' = [op |-> "revokeHash", sender |-> sender, hash |-> hash,
                        note |-> EmptyNote, time |-> now, ok |-> out.ok,
                        error |-> out.error, ret |-> NoReturn,
                        preRecords |-> records, preEvents |-> events]
        /\ UNCHANGED <<now, ui>>

\* A call of the view getRecord(hash).
CallGetRecord(hash) ==
    /\ lastCall' = [op |-> "getRecord", sender |-> ZeroAddress, hash |-> hash,
                    note |-> EmptyNote, time |-> now, ok |-> TRUE,
                    error |-> NoError, ret |-> getRecord(records, hash),
                    preRecords |-> records, preEvents |-> events]
    /\ UNCHANGED <<records, events, now, ui>>

\* The host mines a later block: block.timestamp grows.
AdvanceTime ==
    /\ now < MaxTime
    /\ now' = now + 1
    /\ UNCHANGED <<records, events, lastCall, ui>>

Next ==
    \/ \E sender \in Senders, hash \in Hashes, note \in Notes :
          TxRegisterHash(sender, hash, note)
    \/ \E sender \in Senders, hash \in Hashes : TxRevokeHash(sender, hash)
    \/ \E hash \in Hashes : CallGetRecord(hash)
    \/ AdvanceTime

Spec == Init /\ [][Next]_vars

(***************************************************************************)
(* Vocabulary of the properties.                                           *)
(***************************************************************************)
\* The record of the last call's hash before and after the call.
PreRecord == lastCall.preRecords[lastCall.hash]
PostRecord == records[lastCall.hash]

\* The log `evs` holds a HashRegistered / HashRevoked event for hash h.
RegisteredIn(evs, h) ==
    \E i \in DOMAIN evs : evs[i].type = "HashRegistered" /\ evs[i].hash = h
RevokedIn(evs, h) ==
    \E i \in DOMAIN evs : evs[i].type = "HashRevoked" /\ evs[i].hash = h

\* The last call failed with the revert string msg.
FailedWith(msg) == ~lastCall.ok /\ lastCall.error = msg

\* The lifecycle state of a record.
LifeState(rec) ==
    IF ~rec.exists THEN "ABSENT"
    ELSE IF rec.revoked THEN "REVOKED"
    ELSE "ACTIVE"

(***************************************************************************)
(* Properties.                                                             *)
(***************************************************************************)
\* C1: write-once registration. Once a registerHash(h, n1) call has succeeded
\* (the log holds its HashRegistered event), every later registerHash(h, n2)
\* fails with 'Hash already registered', whatever the notes (also notes longer
\* than 80 bytes), whoever the caller (also the owner), revoked or not.
C1_WriteOnce ==
    (lastCall.op = "registerHash" /\ RegisteredIn(lastCall.preEvents, lastCall.hash))
        => FailedWith(ErrAlreadyRegistered)

\* C1 happens: the owner re-registers its own revoked hash with an
\* over-long note and is refused as already registered.
C1_Witness ==
    /\ lastCall.op = "registerHash"
    /\ FailedWith(ErrAlreadyRegistered)
    /\ PreRecord.revoked
    /\ lastCall.sender = PreRecord.owner
    /\ BytesLength(lastCall.note) > MaxNoteBytes
    /\ RegisteredIn(lastCall.preEvents, lastCall.hash)

\* C2: revoke authorization. revokeHash(h) on an existing, not revoked record
\* by a caller other than its owner fails with 'Only owner can revoke' and
\* leaves revoked(h) = false.
C2_RevokeNotOwner ==
    ( /\ lastCall.op = "revokeHash"
      /\ PreRecord.exists
      /\ ~PreRecord.revoked
      /\ lastCall.sender # PreRecord.owner )
        => (FailedWith(ErrNotOwner) /\ ~PostRecord.revoked)

\* C2 happens: a non-owner's revokeHash on an active record was refused.
C2_Witness ==
    /\ lastCall.op = "revokeHash"
    /\ PreRecord.exists
    /\ ~PreRecord.revoked
    /\ lastCall.sender # PreRecord.owner
    /\ FailedWith(ErrNotOwner)

\* C3: every step that changes revoked(h) is a revokeHash(h) transaction that
\* changes it from false to true, sent by the stored owner of h, on a record
\* that exists; nothing else sets revoked(h).
C3_OnlyOwnerRevokes ==
    [][\A h \in Hashes :
          (records'[h].revoked # records[h].revoked)
            => /\ ~records[h].revoked
               /\ records'[h].revoked
               /\ records[h].exists
               /\ \E sender \in Senders :
                     /\ TxRevokeHash(sender, h)
                     /\ sender = records[h].owner
                     /\ lastCall'.ok]_vars

\* C3 happens: the owner's revokeHash has set revoked(h).
C3_Witness ==
    /\ lastCall.op = "revokeHash"
    /\ lastCall.ok
    /\ ~PreRecord.revoked
    /\ PostRecord.revoked
    /\ lastCall.sender = PreRecord.owner

\* C4: one-shot revocation. A revokeHash(h) by the record's owner after h has
\* been revoked fails with 'Hash already revoked', changes no state and emits
\* no event.
C4_SecondRevokeFails ==
    ( /\ lastCall.op = "revokeHash"
      /\ PreRecord.exists
      /\ PreRecord.revoked
      /\ lastCall.sender = PreRecord.owner )
        => /\ FailedWith(ErrAlreadyRevoked)
           /\ records = lastCall.preRecords
           /\ events = lastCall.preEvents

\* C4 happens: the owner's second revokeHash, after its first one succeeded.
C4_Witness ==
    /\ lastCall.op = "revokeHash"
    /\ lastCall.sender = PreRecord.owner
    /\ RevokedIn(lastCall.preEvents, lastCall.hash)
    /\ FailedWith(ErrAlreadyRevoked)

\* C5: the lifecycle of every hash is one-way. exists(h) and revoked(h) never
\* go from true to false, and the only changes of state are ABSENT -> ACTIVE
\* and ACTIVE -> REVOKED (no reinstatement, no re-registration, no direct
\* ABSENT -> REVOKED).
C5_OneWayLifecycle ==
    [][\A h \in Hashes :
          /\ records[h].exists => records'[h].exists
          /\ records[h].revoked => records'[h].revoked
          /\ \/ LifeState(records'[h]) = LifeState(records[h])
             \/ LifeState(records[h]) = "ABSENT" /\ LifeState(records'[h]) = "ACTIVE"
             \/ LifeState(records[h]) = "ACTIVE" /\ LifeState(records'[h]) = "REVOKED"]_vars

\* C5 happens: a registration attempted on a REVOKED hash left it REVOKED,
\* while another hash is ACTIVE.
C5_Witness ==
    /\ lastCall.op = "registerHash"
    /\ LifeState(PreRecord) = "REVOKED"
    /\ LifeState(PostRecord) = "REVOKED"
    /\ \E h \in Hashes : LifeState(records[h]) = "ACTIVE"

\* C6: record immutability. Once a record exists for h, no step changes its
\* owner, timestamp or note (a successful revocation included), and getRecord
\* on a revoked hash returns exists = true with the owner, timestamp and note
\* the record was registered with.
C6_RecordImmutable ==
    [][/\ \A h \in Hashes :
            records[h].exists
              => /\ records'[h].owner = records[h].owner
                 /\ records'[h].timestamp = records[h].timestamp
                 /\ records'[h].note = records[h].note
       /\ \A h \in Hashes :
            (CallGetRecord(h) /\ records[h].revoked)
              => /\ lastCall'.ret[1] = TRUE
                 /\ lastCall'.ret[5] = TRUE
                 /\ \E i \in DOMAIN events :
                       events[i] = HashRegistered(lastCall'.ret[2], h,
                                                  lastCall'.ret[3], lastCall'.ret[4])]_vars

\* C6 happens: getRecord on a hash revoked at a later time than it was
\* registered returns the record as it was registered.
C6_Witness ==
    /\ lastCall.op = "getRecord"
    /\ PostRecord.revoked
    /\ lastCall.ret = <<TRUE, PostRecord.owner, PostRecord.timestamp,
                        PostRecord.note, TRUE>>
    /\ PostRecord.note # EmptyNote
    /\ \E i \in DOMAIN events :
          /\ events[i].type = "HashRevoked"
          /\ events[i].hash = lastCall.hash
          /\ events[i].timestamp > PostRecord.timestamp

\* C7: all-or-nothing failure. A registerHash or revokeHash call that fails
\* fails with one of the six revert strings and leaves the whole mapping and
\* the event log as they were before the call.
C7_FailureHasNoEffect ==
    (lastCall.op \in {"registerHash", "revokeHash"} /\ ~lastCall.ok)
        => /\ records = lastCall.preRecords
           /\ events = lastCall.preEvents
           /\ lastCall.error \in {ErrZeroHash, ErrAlreadyRegistered, ErrNoteTooLong,
                                  ErrNotRegistered, ErrNotOwner, ErrAlreadyRevoked}

\* C7 happens: a registerHash on an absent hash fails on its note, the last
\* of its checks, with records and events already in the registry.
C7_Witness ==
    /\ lastCall.op = "registerHash"
    /\ FailedWith(ErrNoteTooLong)
    /\ ~PreRecord.exists
    /\ events # <<>>

\* C8: a successful registerHash(h, note) by caller c at time t stores
\* (owner = c, timestamp = t, note, exists = true, revoked = false) under h,
\* appends exactly one HashRegistered event (c, h, t, note), and leaves the
\* record of every other hash unchanged.
C8_RegisterEffect ==
    (lastCall.op = "registerHash" /\ lastCall.ok)
        => /\ PostRecord = Record(lastCall.sender, lastCall.time, lastCall.note,
                                  TRUE, FALSE)
           /\ events = Append(lastCall.preEvents,
                              HashRegistered(lastCall.sender, lastCall.hash,
                                             lastCall.time, lastCall.note))
           /\ \A g \in Hashes \ {lastCall.hash} : records[g] = lastCall.preRecords[g]

\* C8 happens: a registration at time 2 with a non-empty note, next to
\* another hash that already has a record.
C8_Witness ==
    /\ lastCall.op = "registerHash"
    /\ lastCall.ok
    /\ lastCall.time > 1
    /\ lastCall.note # EmptyNote
    /\ \E g \in Hashes \ {lastCall.hash} : lastCall.preRecords[g].exists

\* C9: registerHash(h, note) succeeds exactly when h is not the zero hash,
\* exists(h) = false and the note's length (bytes(note).length) is at most 80;
\* the outcome is the same for every caller.
C9_RegisterSucceedsIff ==
    /\ lastCall.op = "registerHash"
         => (lastCall.ok <=> /\ lastCall.hash # ZeroHash
                             /\ ~PreRecord.exists
                             /\ BytesLength(lastCall.note) <= MaxNoteBytes)
    /\ \A h \in Hashes, note \in Notes, s1 \in Senders, s2 \in Senders :
          registerHash(records, events, s1, now, h, note).ok
            = registerHash(records, events, s2, now, h, note).ok

\* C9 happens: a caller registers an absent hash with a note of exactly 80
\* bytes while the other hash belongs to another account.
C9_Witness ==
    /\ lastCall.op = "registerHash"
    /\ lastCall.ok
    /\ BytesLength(lastCall.note) = MaxNoteBytes
    /\ \E g \in Hashes :
          records[g].exists /\ records[g].owner # lastCall.sender

\* C10: a successful revokeHash(h) at time t sets revoked(h) = true, appends
\* exactly one HashRevoked event (owner(h), h, t) carrying the time of
\* revocation, and changes nothing else.
C10_RevokeEffect ==
    (lastCall.op = "revokeHash" /\ lastCall.ok)
        => /\ PostRecord.revoked
           /\ records = [lastCall.preRecords EXCEPT ![lastCall.hash].revoked = TRUE]
           /\ events = Append(lastCall.preEvents,
                              HashRevoked(PreRecord.owner, lastCall.hash, lastCall.time))

\* C10 happens: a revocation at a later time than the registration, next to
\* another hash that has a record.
C10_Witness ==
    /\ lastCall.op = "revokeHash"
    /\ lastCall.ok
    /\ lastCall.time > PreRecord.timestamp
    /\ events[Len(events)].timestamp = lastCall.time
    /\ \E g \in Hashes \ {lastCall.hash} : records[g].exists

\* The view getRecord returns for a hash that has no record.
DefaultView == <<FALSE, ZeroAddress, 0, EmptyNote, FALSE>>

\* C11: getRecord(h) is a total, pure query. For every hash, the zero hash
\* included, it returns without failing, leaves the mapping and the log as
\* they were, returns the stored (exists, owner, timestamp, note, revoked), and
\* returns (false, address(0), 0, "", false) for a hash never registered.
C11_GetRecordTotalPure ==
    /\ lastCall.op = "getRecord"
         => /\ lastCall.ok
            /\ records = lastCall.preRecords
            /\ events = lastCall.preEvents
            /\ lastCall.ret = <<PostRecord.exists, PostRecord.owner,
                                PostRecord.timestamp, PostRecord.note,
                                PostRecord.revoked>>
    /\ \A h \in Hashes :
          ~RegisteredIn(events, h) => getRecord(records, h) = DefaultView

\* C11 happens: getRecord on a hash never registered, in a registry that
\* holds a revoked record, returned the default view.
C11_Witness ==
    /\ lastCall.op = "getRecord"
    /\ ~RegisteredIn(events, lastCall.hash)
    /\ lastCall.hash # ZeroHash
    /\ lastCall.ret = DefaultView
    /\ \E g \in Hashes : records[g].revoked

\* C12: zero-hash rejection. registerHash(zero, note) and revokeHash(zero) fail
\* with 'Hash cannot be zero' in every reachable state, for every caller and
\* every note (notes longer than 80 bytes included).
C12_ZeroHashRejected ==
    /\ (lastCall.op \in {"registerHash", "revokeHash"} /\ lastCall.hash = ZeroHash)
         => FailedWith(ErrZeroHash)
    /\ \A sender \in Senders :
          /\ \A note \in Notes :
                LET out == registerHash(records, events, sender, now, ZeroHash, note)
                IN  ~out.ok /\ out.error = ErrZeroHash
          /\ LET out == revokeHash(records, events, sender, now, ZeroHash)
             IN  ~out.ok /\ out.error = ErrZeroHash

\* C12 happens: registerHash on the zero hash with an 81-byte note, in a
\* registry that holds records, was refused as a zero hash.
C12_Witness ==
    /\ lastCall.op = "registerHash"
    /\ lastCall.hash = ZeroHash
    /\ BytesLength(lastCall.note) > MaxNoteBytes
    /\ FailedWith(ErrZeroHash)
    /\ events # <<>>

\* The positions of the HashRegistered events for hash h in the log.
RegistrationsOf(h) ==
    {i \in DOMAIN events : events[i].type = "HashRegistered" /\ events[i].hash = h}

\* C13: races between callers registering the same hash. Whatever order the
\* host chooses, at most one registerHash(h, ..) succeeds, the stored owner,
\* timestamp and note are those of that first successful call, and a call
\* ordered after it fails with 'Hash already registered' and does not
\* overwrite the record.
C13_RegisterRace ==
    /\ \A h \in Hashes :
          /\ Cardinality(RegistrationsOf(h)) <= 1
          /\ records[h].exists
               => \E i \in RegistrationsOf(h) :
                     events[i] = HashRegistered(records[h].owner, h,
                                                records[h].timestamp, records[h].note)
    /\ (lastCall.op = "registerHash" /\ PreRecord.exists)
         => /\ FailedWith(ErrAlreadyRegistered)
            /\ PostRecord = PreRecord

\* C13 happens: in the same block as the winner, another caller's
\* registerHash for the same hash with another (valid) note lost the race.
C13_Witness ==
    /\ lastCall.op = "registerHash"
    /\ FailedWith(ErrAlreadyRegistered)
    /\ lastCall.sender # PostRecord.owner
    /\ lastCall.note # PostRecord.note
    /\ BytesLength(lastCall.note) <= MaxNoteBytes
    /\ lastCall.time = PostRecord.timestamp
    /\ ~PostRecord.revoked

\* What an indexer rebuilds from a log: the events applied in order to the
\* empty mapping.
RECURSIVE Replay(_)
Replay(evs) ==
    IF evs = <<>> THEN [h \in Hashes |-> DefaultRecord]
    ELSE LET before == Replay(SubSeq(evs, 1, Len(evs) - 1))
             ev == evs[Len(evs)]
         IN  IF ev.type = "HashRegistered"
             THEN [before EXCEPT ![ev.hash] =
                       Record(ev.owner, ev.timestamp, ev.note, TRUE, FALSE)]
             ELSE [before EXCEPT ![ev.hash].revoked = TRUE]

\* C14: the audit log determines the registry. In every reachable state
\* replaying the log from the empty mapping gives exactly the mapping:
\* exists(h) iff h has a HashRegistered event (with its owner, timestamp and
\* note), revoked(h) iff h has a HashRevoked event.
C14_LogDeterminesRegistry ==
    /\ Replay(events) = records
    /\ \A h \in Hashes :
          /\ records[h].exists <=> RegisteredIn(events, h)
          /\ records[h].revoked <=> RevokedIn(events, h)

\* C14 happens: the log holds a registration and a revocation of one hash
\* around the registration of the other.
C14_Witness ==
    /\ Len(events) = 3
    /\ events[1].type = "HashRegistered"
    /\ events[2].type = "HashRegistered"
    /\ events[3].type = "HashRevoked"
    /\ events[3].hash = events[1].hash
    /\ events[3].timestamp > events[1].timestamp
    /\ Replay(events) = records

\* C15: the note bound at its boundary. For a non-zero hash without a record,
\* registerHash with a note of length 81 (bytes(note).length) fails with 'Note
\* too long (max 80 chars)' and with a note of length 80 succeeds.
C15_NoteBoundary ==
    (lastCall.op = "registerHash" /\ lastCall.hash # ZeroHash /\ ~PreRecord.exists)
        => /\ BytesLength(lastCall.note) = MaxNoteBytes + 1 => FailedWith(ErrNoteTooLong)
           /\ BytesLength(lastCall.note) = MaxNoteBytes => lastCall.ok

\* C15 happens: an 81-byte note was refused for a fresh hash after an
\* 80-byte note had been accepted for the other hash.
C15_Witness ==
    /\ lastCall.op = "registerHash"
    /\ lastCall.hash # ZeroHash
    /\ ~PreRecord.exists
    /\ BytesLength(lastCall.note) = MaxNoteBytes + 1
    /\ FailedWith(ErrNoteTooLong)
    /\ \E g \in Hashes :
          records[g].exists /\ BytesLength(records[g].note) = MaxNoteBytes

(***************************************************************************)
(* The note field of RegisterPanel in front of the contract.  The input    *)
(* element lets the user type a note of at most maxLength UTF-16 code      *)
(* units; handleRegister passes it unchanged to registerHash.              *)
(***************************************************************************)
\* maxLength of the note input.
NoteMaxLength == 80

\* Notes with characters outside ASCII: 80 and 40 copies of U+00E9 (two bytes
\* each), 40 copies of U+1F600 (four bytes, two UTF-16 code units each).
NoteAccent80 == <<Run(233, NoteMaxLength)>>
NoteAccent40 == <<Run(233, NoteMaxLength \div 2)>>
NoteEmoji40 == <<Run(128512, NoteMaxLength \div 2)>>

\* Number of UTF-16 code units of one code point in a JavaScript string.
Utf16Units(cp) == IF cp >= 65536 THEN 2 ELSE 1

\* note.length
RECURSIVE StringLength(_)
StringLength(note) ==
    IF note = <<>> THEN 0
    ELSE Head(note)[2] * Utf16Units(Head(note)[1]) + StringLength(Tail(note))

\* The notes the input accepts.
PanelNotes ==
    {note \in Notes \cup {NoteAccent80, NoteAccent40, NoteEmoji40} :
        StringLength(note) <= NoteMaxLength}

\* handleRegister: the panel sends registerHash(hash, note) with the note typed.
PanelRegister(sender, hash, note) ==
    /\ note \in PanelNotes
    /\ TxRegisterHash(sender, hash, note)

NextPanel ==
    \/ \E sender \in Senders, hash \in Hashes \ {ZeroHash}, note \in PanelNotes :
          PanelRegister(sender, hash, note)
    \/ AdvanceTime

SpecPanel == Init /\ [][NextPanel]_vars

\* C16: the note bound is counted in characters. Every note of at most 80
\* characters, which is what the note input of RegisterPanel lets the user
\* type, passes the registry's length check and is never refused as 'Note too
\* long (max 80 chars)'.
C16_TypedNoteNeverTooLong ==
    (lastCall.op = "registerHash" /\ StringLength(lastCall.note) <= NoteMaxLength)
        => ~FailedWith(ErrNoteTooLong)

\* C17: in every reachable state every record with exists = true has a note
\* of length at most 80 (in bytes, hence also in characters), and no call on
\* a hash that has a record changes the record's note.
C17_StoredNoteBounded ==
    /\ \A h \in Hashes :
          records[h].exists
            => /\ BytesLength(records[h].note) <= MaxNoteBytes
               /\ StringLength(records[h].note) <= MaxNoteBytes
    /\ (lastCall.op \in {"registerHash", "revokeHash", "getRecord"} /\ PreRecord.exists)
         => PostRecord.note = PreRecord.note

\* C17 happens: a record with an 80-byte note has just been the target of a
\* registerHash carrying an 81-byte note.
C17_Witness ==
    /\ lastCall.op = "registerHash"
    /\ PreRecord.exists
    /\ BytesLength(PreRecord.note) = MaxNoteBytes
    /\ BytesLength(lastCall.note) > MaxNoteBytes
    /\ PostRecord.note = PreRecord.note

\* C18: in every reachable state the zero hash is the key of no record:
\* exists(zero) = false and getRecord(zero) returns the default view.
C18_ZeroHashNeverKey ==
    /\ ~records[ZeroHash].exists
    /\ records[ZeroHash] = DefaultRecord
    /\ getRecord(records, ZeroHash) = DefaultView

\* C18 happens: with every other hash registered, a registerHash on the zero
\* hash with a valid note has been attempted and the zero hash has no record.
C18_Witness ==
    /\ lastCall.op = "registerHash"
    /\ lastCall.hash = ZeroHash
    /\ BytesLength(lastCall.note) <= MaxNoteBytes
    /\ ~lastCall.ok
    /\ getRecord(records, ZeroHash) = DefaultView
    /\ \A g \in Hashes \ {ZeroHash} : records[g].exists

\* C19: in every reachable state every hash with exists = false has the
\* default record: owner address(0), timestamp 0, empty note, revoked false.
C19_AbsentIsDefault ==
    \A h \in Hashes :
        ~records[h].exists
          => /\ records[h].owner = ZeroAddress
             /\ records[h].timestamp = 0
             /\ records[h].note = EmptyNote
             /\ ~records[h].revoked

\* C19 happens: after a registration and a revocation of one hash and a
\* refused registration of the other, the other hash is absent and default.
C19_Witness ==
    /\ lastCall.op = "registerHash"
    /\ lastCall.hash # ZeroHash
    /\ ~lastCall.ok
    /\ ~PostRecord.exists
    /\ PostRecord = DefaultRecord
    /\ \E g \in Hashes : records[g].revoked

\* C20: revokeHash(h) on a non-zero hash with exists(h) = false fails with
\* 'Hash not registered' for every caller and creates no record for h.
C20_RevokeAbsentFails ==
    /\ (lastCall.op = "revokeHash" /\ lastCall.hash # ZeroHash /\ ~PreRecord.exists)
         => /\ FailedWith(ErrNotRegistered)
            /\ ~PostRecord.exists
            /\ records = lastCall.preRecords
    /\ \A sender \in Senders, h \in Hashes \ {ZeroHash} :
          ~records[h].exists
            => LET out == revokeHash(records, events, sender, now, h)
               IN  ~out.ok /\ out.error = ErrNotRegistered

\* C20 happens: revokeHash on an absent hash was refused while the caller
\* owns the other hash's record.
C20_Witness ==
    /\ lastCall.op = "revokeHash"
    /\ lastCall.hash # ZeroHash
    /\ ~PreRecord.exists
    /\ FailedWith(ErrNotRegistered)
    /\ \E g \in Hashes : records[g].exists /\ records[g].owner = lastCall.sender

\* The six revert strings.
RevertMessages ==
    {ErrZeroHash, ErrAlreadyRegistered, ErrNoteTooLong,
     ErrNotRegistered, ErrNotOwner, ErrAlreadyRevoked}

\* C21: every failure kind has its own signal. The six revert strings are
\* pairwise distinct; a failed call carries one of them (never another,
\* generic one) and the string names a precondition the call did violate; a
\* zero hash gives the same string in registerHash and in revokeHash.
C21_DistinctSignals ==
    /\ Cardinality(RevertMessages) = 6
    /\ (lastCall.op \in {"registerHash", "revokeHash"} /\ ~lastCall.ok)
         => /\ lastCall.error \in RevertMessages
            /\ lastCall.error = ErrZeroHash => lastCall.hash = ZeroHash
            /\ lastCall.error = ErrAlreadyRegistered
                 => lastCall.op = "registerHash" /\ PreRecord.exists
            /\ lastCall.error = ErrNoteTooLong
                 => lastCall.op = "registerHash"
                    /\ BytesLength(lastCall.note) > MaxNoteBytes
            /\ lastCall.error = ErrNotRegistered
                 => lastCall.op = "revokeHash" /\ ~PreRecord.exists
            /\ lastCall.error = ErrNotOwner
                 => lastCall.op = "revokeHash" /\ lastCall.sender # PreRecord.owner
            /\ lastCall.error = ErrAlreadyRevoked
                 => lastCall.op = "revokeHash" /\ PreRecord.revoked
    /\ (lastCall.op \in {"registerHash", "revokeHash"} /\ lastCall.hash = ZeroHash)
         => lastCall.error = ErrZeroHash
    /\ lastCall.ok => lastCall.error = NoError

\* C21 happens: a non-owner's revokeHash on an existing record was refused
\* with the owner message, not with any of the other five.
C21_Witness ==
    /\ lastCall.op = "revokeHash"
    /\ PreRecord.exists
    /\ lastCall.sender # PreRecord.owner
    /\ ~lastCall.ok
    /\ lastCall.error = ErrNotOwner
    /\ lastCall.error \notin (RevertMessages \ {ErrNotOwner})

\* C27: failure precedence in registerHash. The outcome is the first violated
\* precondition in the order zero hash, already registered, note too long.
C27_RegisterPrecedence ==
    lastCall.op = "registerHash"
      => lastCall.error =
           IF lastCall.hash = ZeroHash THEN ErrZeroHash
           ELSE IF PreRecord.exists THEN ErrAlreadyRegistered
           ELSE IF BytesLength(lastCall.note) > MaxNoteBytes THEN ErrNoteTooLong
           ELSE NoError

\* C27 happens: an 81-byte note for a hash that has an active record is
\* reported as already registered.
C27_Witness ==
    /\ lastCall.op = "registerHash"
    /\ lastCall.hash # ZeroHash
    /\ PreRecord.exists
    /\ ~PreRecord.revoked
    /\ BytesLength(lastCall.note) > MaxNoteBytes
    /\ lastCall.error = ErrAlreadyRegistered

\* C28: failure precedence in revokeHash. The outcome is the first violated
\* precondition in the order zero hash, not registered, not owner, already
\* revoked; a non-owner on a revoked hash gets 'Only owner can revoke', and
\* only the owner ever gets 'Hash already revoked'.
C28_RevokePrecedence ==
    lastCall.op = "revokeHash"
      => /\ lastCall.error =
              IF lastCall.hash = ZeroHash THEN ErrZeroHash
              ELSE IF ~PreRecord.exists THEN ErrNotRegistered
              ELSE IF lastCall.sender # PreRecord.owner THEN ErrNotOwner
              ELSE IF PreRecord.revoked THEN ErrAlreadyRevoked
              ELSE NoError
         /\ lastCall.error = ErrAlreadyRevoked => lastCall.sender = PreRecord.owner

\* C28 happens: a non-owner's revokeHash on a revoked hash was refused with
\* the owner message.
C28_Witness ==
    /\ lastCall.op = "revokeHash"
    /\ PreRecord.revoked
    /\ lastCall.sender # PreRecord.owner
    /\ lastCall.error = ErrNotOwner

\* A title with the two outcomes of the README only.
VerifyTitle_TwoOutcomes(exists, revoked) ==
    IF exists THEN "FILE UNCHANGED" ELSE "NO RECORD"

\* The title VerifyPanel renders for a record view.
VerifyTitle(exists, revoked) ==
    IF exists /\ ~revoked THEN "FILE UNCHANGED"
    ELSE IF revoked THEN "HASH REVOKED"
    ELSE "NO RECORD"

\* C29: in every reachable state revoked(h) implies exists(h) and a non-zero
\* owner, so for every hash exactly one of the three cases VerifyPanel
\* distinguishes holds: exists and not revoked, revoked (and exists), not
\* exists (and not revoked); its title tells them apart.
C29_RevokedImpliesExists ==
    \A h \in Hashes :
        /\ records[h].revoked => (records[h].exists /\ records[h].owner # ZeroAddress)
        /\ VerifyTitle(records[h].exists, records[h].revoked) = "FILE UNCHANGED"
             <=> LifeState(records[h]) = "ACTIVE"
        /\ VerifyTitle(records[h].exists, records[h].revoked) = "HASH REVOKED"
             <=> LifeState(records[h]) = "REVOKED"
        /\ VerifyTitle(records[h].exists, records[h].revoked) = "NO RECORD"
             <=> LifeState(records[h]) = "ABSENT"

\* C29 happens: the three cases are present at once after a revocation.
C29_Witness ==
    /\ lastCall.op = "revokeHash"
    /\ lastCall.ok
    /\ PostRecord.revoked /\ PostRecord.exists
    /\ \E g \in Hashes : LifeState(records[g]) = "ACTIVE"
    /\ LifeState(records[ZeroHash]) = "ABSENT"

\* The positions of the HashRevoked events for hash h in the log.
RevocationsOf(h) ==
    {i \in DOMAIN events : events[i].type = "HashRevoked" /\ events[i].hash = h}

\* C30: the event log is well formed. Each hash has at most one HashRegistered
\* and at most one HashRevoked event; a HashRevoked event for h comes after
\* the HashRegistered event for h, carries the same owner and a timestamp not
\* earlier than the registration's (block.timestamp never decreases).
C30_LogWellFormed ==
    \A h \in Hashes :
        /\ Cardinality(RegistrationsOf(h)) <= 1
        /\ Cardinality(RevocationsOf(h)) <= 1
        /\ \A j \in RevocationsOf(h) :
              \E i \in RegistrationsOf(h) :
                 /\ i < j
                 /\ events[i].owner = events[j].owner
                 /\ events[i].timestamp <= events[j].timestamp

\* C30 happens: both hashes registered by different owners, one of them
\* revoked in a later block, followed by refused repetitions.
C30_Witness ==
    /\ \A h \in Hashes \ {ZeroHash} : Cardinality(RegistrationsOf(h)) = 1
    /\ \E h \in Hashes :
          \E j \in RevocationsOf(h) : \E i \in RegistrationsOf(h) :
              events[i].timestamp < events[j].timestamp
    /\ \E i, k \in DOMAIN events : events[i].owner # events[k].owner
    /\ lastCall.op = "revokeHash"
    /\ FailedWith(ErrAlreadyRevoked)

(***************************************************************************)
(* The front end in front of the contract.  A handler that awaits the      *)
(* chain is several steps: what it does before the await, and what it does *)
(* when the awaited call returns; other sessions' transactions and other   *)
(* handlers of the same session run in between.                            *)
(***************************************************************************)
chain == <<records, events, now, lastCall>>

\* Transactions of other sessions that take effect.
OtherRegister(sender, hash) ==
    /\ registerHash(records, events, sender, now, hash, EmptyNote).ok
    /\ TxRegisterHash(sender, hash, EmptyNote)

OtherRevoke(sender, hash) ==
    /\ revokeHash(records, events, sender, now, hash).ok
    /\ TxRevokeHash(sender, hash)

\* The session's own transaction is mined with outcome out.
Mined(op, hash, note, out) ==
    /\ records' = out.records
    /\ events' = out.events
    /\ lastCall' = [op |-> op, sender |-> Me, hash |-> hash, note |-> note,
                    time |-> now, ok |-> out.ok, error |-> out.error,
                    ret |-> NoReturn, preRecords |-> records,
                    preEvents |-> events]
    /\ UNCHANGED now

\* onToast(type, title, message)
Toast(type, title, message) == [type |-> type, title |-> title, message |-> message]
Text(text) == [text |-> text, reason |-> NoError]

\* error.message of what lib/eth throws.  contract.registerHash(...) and
\* contract.revokeHash(...) estimate gas first: a call that would revert is
\* rejected there with the revert string in the message.  A transaction that
\* was sent and reverts when mined makes tx.wait() throw without it.  The
\* user may also decline the transaction in the wallet.
SendError(reason) == [text |-> "execution reverted", reason |-> reason]
WaitError == [text |-> "transaction execution reverted", reason |-> NoError]
UserRejected == [text |-> "user rejected action", reason |-> NoError]

\* message.includes(needle), for the two needles the handlers look for.
Includes(message, needle) ==
    IF needle = "user rejected" THEN message.text = "user rejected action"
    ELSE IF needle = "already registered" THEN message.reason = ErrAlreadyRegistered
    ELSE FALSE

\* The catch block of handleRegister.
RegisterErrorToast(error) ==
    IF Includes(error, "user rejected")
    THEN Toast("warning", "Cancelled", Text("Transaction was cancelled"))
    ELSE IF Includes(error, "already registered")
    THEN Toast("error", "Already Registered", Text("This file hash is already registered"))
    ELSE Toast("error", "Registration Failed",
               IF error.text # "" THEN error ELSE Text("An unexpected error occurred"))

\* The catch block of handleRevoke.
RevokeErrorToast(error) ==
    IF Includes(error, "user rejected")
    THEN Toast("warning", "Cancelled", Text("Revocation was cancelled"))
    ELSE Toast("error", "Revoke Failed",
               IF error.text # "" THEN error ELSE Text("Failed to revoke hash"))

\* isHashRegistered(hash)
isHashRegistered(recs, hash) == getRecord(recs, hash)[1]

\* disabled of the Register button.
RegisterDisabled ==
    \/ ui.register.hashHex = NoHash
    \/ ui.register.isRegistering
    \/ ui.register.isHashing
    \/ ui.register.isDuplicate

\* RegisterPanel.processFile up to its first await.
processFile(file) ==
    /\ ui.register.task[file] = "idle"
    /\ ui' = [ui EXCEPT !.register.file = file,
                        !.register.hashHex = NoHash,
                        !.register.isDuplicate = FALSE,
                        !.register.isHashing = TRUE,
                        !.register.task[file] = "hashing"]
    /\ UNCHANGED chain

\* The file input is disabled while hashing or registering; the dropzone is
\* not.
handleFileChange(file) ==
    /\ ~(ui.register.isRegistering \/ ui.register.isHashing)
    /\ processFile(file)

handleDrop(file) ==
    /\ file \in Files
    /\ processFile(file)

\* computeFileHash returned: setHashHex(hash), then the duplicate check starts.
HashComputed(file) ==
    /\ ui.register.task[file] = "hashing"
    /\ ui' = [ui EXCEPT !.register.hashHex = computeFileHash(file),
                        !.register.task[file] = "checking"]
    /\ UNCHANGED chain

\* isHashRegistered returned; finally setIsHashing(false).
DuplicateChecked(file) ==
    /\ ui.register.task[file] = "checking"
    /\ ui' = IF isHashRegistered(records, computeFileHash(file))
             THEN [ui EXCEPT !.register.isDuplicate = TRUE,
                             !.register.isHashing = FALSE,
                             !.register.task[file] = "idle",
                             !.toast = Toast("warning", "Duplicate Detected",
                                 Text("This file hash is already registered on the blockchain")),
                             !.kind = NoError]
             ELSE [ui EXCEPT !.register.isHashing = FALSE,
                             !.register.task[file] = "idle"]
    /\ UNCHANGED chain

\* computeFileHash or isHashRegistered threw: the catch block, then finally.
ProcessFileFailed(file) ==
    /\ ui.register.task[file] # "idle"
    /\ ui' = [ui EXCEPT !.register.isHashing = FALSE,
                        !.register.task[file] = "idle",
                        !.toast = Toast("error", "Hashing Failed", Text("error.message")),
                        !.kind = NoError]
    /\ UNCHANGED chain

\* A click on Register: handleRegister up to the point where the transaction
\* is handed to the wallet.  A call that would revert is refused by the gas
\* estimation and ends in the catch block.
handleRegister(note) ==
    LET p == ui.register
        estimate == registerHash(records, events, Me, now, p.hashHex, note)
    IN  /\ ~RegisterDisabled
        /\ note \in {EmptyNote, NoteAccent80}
        /\ ui' = IF p.hashHex = NoHash THEN ui
                 ELSE IF p.isDuplicate
                 THEN [ui EXCEPT !.toast = Toast("error", "Cannot Register",
                           Text("This hash is already registered. Registration cancelled.")),
                                 !.kind = NoError]
                 ELSE IF ~estimate.ok
                 THEN [ui EXCEPT !.toast = RegisterErrorToast(SendError(estimate.error)),
                                 !.kind = estimate.error,
                                 !.register.calledRegistered =
                                     @ \/ records[p.hashHex].exists]
                 ELSE [ui EXCEPT !.register.isRegistering = TRUE,
                                 !.register.tx = [hash |-> p.hashHex, note |-> note]]
        /\ UNCHANGED chain

\* The user declines the transaction in the wallet.
RegisterRejected ==
    /\ ui.register.tx # NoTx
    /\ ui' = [ui EXCEPT !.toast = RegisterErrorToast(UserRejected),
                        !.kind = NoError,
                        !.register.isRegistering = FALSE,
                        !.register.tx = NoTx]
    /\ UNCHANGED chain

\* Faulty variant: the form is reset in a finally block, after a failure too.
RegisterMined_ResetsInFinally ==
    LET p == ui.register
        out == registerHash(records, events, Me, now, p.tx.hash, p.tx.note)
    IN  /\ p.tx # NoTx
        /\ Mined("registerHash", p.tx.hash, p.tx.note, out)
        /\ ui' = [ui EXCEPT !.toast = IF out.ok
                                      THEN Toast("success", "Registered",
                                               Text("File hash registered successfully"))
                                      ELSE RegisterErrorToast(WaitError),
                            !.kind = out.error,
                            !.register.file = NoFile,
                            !.register.hashHex = NoHash,
                            !.register.note = EmptyNote,
                            !.register.isDuplicate = FALSE,
                            !.register.isRegistering = FALSE,
                            !.register.tx = NoTx,
                            !.refreshTrigger = IF out.ok THEN @ + 1 ELSE @]

\* The transaction is mined and tx.wait() returns or throws: the rest of
\* handleRegister.
RegisterMined ==
    LET p == ui.register
        out == registerHash(records, events, Me, now, p.tx.hash, p.tx.note)
    IN  /\ p.tx # NoTx
        /\ Mined("registerHash", p.tx.hash, p.tx.note, out)
        /\ ui' = IF out.ok
                 THEN [ui EXCEPT !.toast = Toast("success", "Registered",
                                      Text("File hash registered successfully")),
                                 !.kind = NoError,
                                 !.register.file = NoFile,
                                 !.register.hashHex = NoHash,
                                 !.register.note = EmptyNote,
                                 !.register.isDuplicate = FALSE,
                                 !.register.isRegistering = FALSE,
                                 !.register.tx = NoTx,
                                 !.refreshTrigger = @ + 1]
                 ELSE [ui EXCEPT !.toast = RegisterErrorToast(WaitError),
                                 !.kind = out.error,
                                 !.register.isRegistering = FALSE,
                                 !.register.tx = NoTx]

\* getRecentEvents as RecordsPanel uses it: the hashes of the HashRegistered
\* events whose owner is the connected account get a Revoke button.
MyRegistrations(evs) ==
    {evs[i].hash : i \in {j \in DOMAIN evs :
                            evs[j].type = "HashRegistered" /\ evs[j].owner = Me}}

\* RecordsPanel.loadEvents
loadEvents ==
    /\ ui.records.mine # MyRegistrations(events)
    /\ ui' = [ui EXCEPT !.records.mine = MyRegistrations(events)]
    /\ UNCHANGED chain

\* A click on Revoke: handleRevoke up to the point where the transaction is
\* handed to the wallet.
handleRevoke(hash) ==
    LET estimate == revokeHash(records, events, Me, now, hash)
    IN  /\ hash \in ui.records.mine
        /\ ui.records.tx = NoHash
        /\ ui' = IF ~estimate.ok
                 THEN [ui EXCEPT !.toast = RevokeErrorToast(SendError(estimate.error)),
                                 !.kind = estimate.error]
                 ELSE [ui EXCEPT !.records.tx = hash]
        /\ UNCHANGED chain

RevokeRejected ==
    /\ ui.records.tx # NoHash
    /\ ui' = [ui EXCEPT !.toast = RevokeErrorToast(UserRejected),
                        !.kind = NoError,
                        !.records.tx = NoHash]
    /\ UNCHANGED chain

\* The transaction is mined: the rest of handleRevoke.
RevokeMined ==
    LET hash == ui.records.tx
        out == revokeHash(records, events, Me, now, hash)
    IN  /\ hash # NoHash
        /\ Mined("revokeHash", hash, EmptyNote, out)
        /\ ui' = IF out.ok
                 THEN [ui EXCEPT !.toast = Toast("success", "Revoked",
                                      Text("Hash has been revoked successfully")),
                                 !.kind = NoError,
                                 !.records.tx = NoHash,
                                 !.records.mine = MyRegistrations(out.events)]
                 ELSE [ui EXCEPT !.toast = RevokeErrorToast(WaitError),
                                 !.kind = out.error,
                                 !.records.tx = NoHash]

NextApp ==
    \/ \E sender \in Senders, hash \in Hashes \ {ZeroHash} : OtherRegister(sender, hash)
    \/ \E hash \in Hashes \ {ZeroHash} : OtherRevoke(Me, hash)
    \/ \E file \in Files : handleFileChange(file)
    \/ \E file \in Files : handleDrop(file)
    \/ \E file \in Files : HashComputed(file)
    \/ \E file \in Files : DuplicateChecked(file)
    \/ \E file \in Files : ProcessFileFailed(file)
    \/ \E note \in PanelNotes : handleRegister(note)
    \/ RegisterRejected
    \/ RegisterMined
    \/ loadEvents
    \/ \E hash \in Hashes : handleRevoke(hash)
    \/ RevokeRejected
    \/ RevokeMined

SpecApp == Init /\ [][NextApp]_vars

\* The toast tells that the registry failure was of kind k: its message
\* carries k's revert string, or it is the toast the handler has for k alone.
ToastNames(toast, k) ==
    \/ toast.message.reason = k
    \/ k = ErrAlreadyRegistered /\ toast.title = "Already Registered"

\* C22: the presentation layer maps each registry failure kind to a distinct
\* user-visible message. Whenever handleRegister or handleRevoke shows a toast
\* for a registry failure, the toast tells the kind of the failure and no
\* other kind: toasts of different kinds differ and none is a generic
\* 'operation failed'.
C22_ToastPerFailureKind ==
    ui.kind # NoError
      => /\ ToastNames(ui.toast, ui.kind)
         /\ \A k \in RevertMessages \ {ui.kind} : ~ToastNames(ui.toast, k)

\* C23: duplicate detection in RegisterPanel. Whenever the hash held by the
\* panel has a record on chain, registration is blocked (the Register button
\* is disabled), and handleRegister never calls registerHash for a hash that
\* has a record.
C23_DuplicateBlocked ==
    /\ (ui.register.hashHex # NoHash /\ records[ui.register.hashHex].exists)
          => RegisterDisabled
    /\ ~ui.register.calledRegistered

(***************************************************************************)
(* VerifyPanel: single-file verification and the certificate.              *)
(***************************************************************************)
\* VerifyPanel.processFile(file, false) up to its await.
VerifyProcessFile(file) ==
    /\ ui.verify.task[file] = "idle"
    /\ ui' = [ui EXCEPT !.verify.file = file,
                        !.verify.hashHex = NoHash,
                        !.verify.verifyResult = NoResult,
                        !.verify.isHashing = TRUE,
                        !.verify.task[file] = "hashing"]
    /\ UNCHANGED chain

\* The file input is disabled while hashing or verifying; the dropzone is not.
VerifyFileChange(file) ==
    /\ ~(ui.verify.isVerifying \/ ui.verify.isHashing)
    /\ VerifyProcessFile(file)

VerifyDrop(file) ==
    /\ file \in Files
    /\ VerifyProcessFile(file)

\* computeFileHash returned (setHashHex, finally) or threw (catch, finally).
VerifyHashComputed(file) ==
    /\ ui.verify.task[file] = "hashing"
    /\ ui' = [ui EXCEPT !.verify.hashHex = computeFileHash(file),
                        !.verify.isHashing = FALSE,
                        !.verify.task[file] = "idle"]
    /\ UNCHANGED chain

VerifyHashFailed(file) ==
    /\ ui.verify.task[file] = "hashing"
    /\ ui' = [ui EXCEPT !.verify.isHashing = FALSE,
                        !.verify.task[file] = "idle",
                        !.toast = Toast("error", "Hashing Failed", Text("error.message")),
                        !.kind = NoError]
    /\ UNCHANGED chain

\* A click on Verify Integrity: handleVerify up to await getRecord.
handleVerify ==
    /\ ~(ui.verify.hashHex = NoHash \/ ui.verify.isVerifying \/ ui.verify.isHashing)
    /\ ui' = [ui EXCEPT !.verify.isVerifying = TRUE,
                        !.verify.verifyResult = NoResult,
                        !.verify.pending = ui.verify.hashHex]
    /\ UNCHANGED chain

\* The object handleVerify passes to setVerifyResult for a getRecord view.
VerifyResultOf(view) ==
    IF view[1]
    THEN [set |-> TRUE, exists |-> TRUE, owner |-> view[2],
          isOwner |-> (view[2] = Me), revoked |-> view[5]]
    ELSE [set |-> TRUE, exists |-> FALSE, owner |-> ZeroAddress,
          isOwner |-> FALSE, revoked |-> FALSE]

\* getRecord returned: the rest of handleVerify.
VerifyReturned ==
    LET view == getRecord(records, ui.verify.pending)
    IN  /\ ui.verify.pending # NoHash
        /\ ui' = [ui EXCEPT
                     !.verify.verifyResult = VerifyResultOf(view),
                     !.verify.seen = [exists |-> view[1], revoked |-> view[5]],
                     !.verify.isVerifying = FALSE,
                     !.verify.pending = NoHash,
                     !.toast =
                        IF view[1] /\ view[5]
                        THEN Toast("warning", "Hash Revoked",
                                 Text("This hash was registered but has been revoked by owner"))
                        ELSE IF view[1]
                        THEN Toast("success", "Match Found", Text("File hash exists on blockchain"))
                        ELSE Toast("warning", "No Record", Text("This file hash is not registered")),
                     !.kind = NoError]
        /\ UNCHANGED chain

\* getRecord threw: the catch block of handleVerify.
VerifyFailed ==
    /\ ui.verify.pending # NoHash
    /\ ui' = [ui EXCEPT !.verify.isVerifying = FALSE,
                        !.verify.pending = NoHash,
                        !.toast = Toast("error", "Verification Failed", Text("error.message")),
                        !.kind = NoError]
    /\ UNCHANGED chain

\* The Download Certificate button is rendered.
CertificateButton ==
    /\ ui.verify.verifyResult.set
    /\ ui.verify.verifyResult.exists
    /\ ~ui.verify.verifyResult.revoked

\* downloadCertificate(data)
downloadCertificate(hash, owner, fileName) ==
    [issued |-> TRUE, hash |-> hash, fileName |-> fileName, owner |-> owner,
     status |-> "VERIFIED - File Unchanged",
     verified |-> ui.verify.verifyResult.exists /\ ~ui.verify.verifyResult.revoked,
     registered |-> records[hash].exists, revoked |-> records[hash].revoked]

\* A click on Download Certificate.
handleDownloadCertificate ==
    /\ CertificateButton
    /\ ui' = IF ~ui.verify.verifyResult.exists \/ ui.verify.file = NoFile THEN ui
             ELSE [ui EXCEPT
                      !.verify.certificate =
                          downloadCertificate(ui.verify.hashHex,
                                              ui.verify.verifyResult.owner,
                                              ui.verify.file),
                      !.toast = Toast("success", "Downloaded",
                                    Text("Verification certificate downloaded")),
                      !.kind = NoError]
    /\ ui' # ui
    /\ UNCHANGED chain

NextVerify ==
    \/ \E sender \in Senders, hash \in Hashes \ {ZeroHash} : OtherRegister(sender, hash)
    \/ \E sender \in Senders, hash \in Hashes \ {ZeroHash} : OtherRevoke(sender, hash)
    \/ \E file \in Files : VerifyFileChange(file)
    \/ \E file \in Files : VerifyDrop(file)
    \/ \E file \in Files : VerifyHashComputed(file)
    \/ \E file \in Files : VerifyHashFailed(file)
    \/ handleVerify
    \/ VerifyReturned
    \/ VerifyFailed
    \/ handleDownloadCertificate

SpecVerify == Init /\ [][NextVerify]_vars

\* The title on screen.
ShownTitle ==
    VerifyTitle(ui.verify.verifyResult.exists, ui.verify.verifyResult.revoked)

C25_CertificateOnlyVerified ==
    ui.verify.certificate.issued
      => /\ ui.verify.certificate.verified
         /\ ui.verify.certificate.registered
         /\ ~ui.verify.certificate.revoked

(***************************************************************************)
(* VerifyPanel: bulk verification.                                         *)
(***************************************************************************)
\* The file lists dropped in bulk mode.
BulkInputs == {<<"a.txt">>, <<"a.txt", "b.txt">>, <<"b.txt", "a.txt">>}

\* handleBulkVerify(files) up to the first await of its loop.
handleBulkVerify(files) ==
    /\ ui.verify.bulkFiles = <<>>
    /\ ui' = [ui EXCEPT !.verify.bulkResults = <<>>,
                        !.verify.bulkInput = <<>>,
                        !.verify.isVerifying = TRUE,
                        !.verify.bulkFiles = files,
                        !.verify.results = <<>>]
    /\ UNCHANGED chain

\* The file the loop is at.
BulkFile == ui.verify.bulkFiles[Len(ui.verify.results) + 1]

\* One iteration whose try block completes: results.push of the record read.
\* registered remembers whether the file's hash had a record at that moment.
BulkFileVerified ==
    /\ Len(ui.verify.results) < Len(ui.verify.bulkFiles)
    /\ LET hash == computeFileHash(BulkFile)
           view == getRecord(records, hash)
       IN  ui' = [ui EXCEPT !.verify.results =
                      Append(@, [fileName |-> BulkFile, hash |-> hash,
                                 error |-> FALSE, exists |-> view[1],
                                 revoked |-> view[5],
                                 registered |-> records[hash].exists])]
    /\ UNCHANGED chain

\* One iteration in which computeFileHash or getRecord throws: results.push of
\* the catch block (hash: 'Error computing hash', exists: false).
BulkFileFailed ==
    /\ Len(ui.verify.results) < Len(ui.verify.bulkFiles)
    /\ ui' = [ui EXCEPT !.verify.results =
                 Append(@, [fileName |-> BulkFile, hash |-> NoHash,
                            error |-> TRUE, exists |-> FALSE,
                            revoked |-> FALSE,
                            registered |->
                                records[computeFileHash(BulkFile)].exists])]
    /\ UNCHANGED chain

\* The loop is over: setBulkResults(results), setIsVerifying(false), toast.
BulkCompleted ==
    /\ ui.verify.bulkFiles # <<>>
    /\ Len(ui.verify.results) = Len(ui.verify.bulkFiles)
    /\ ui' = [ui EXCEPT !.verify.bulkResults = ui.verify.results,
                        !.verify.bulkInput = ui.verify.bulkFiles,
                        !.verify.isVerifying = FALSE,
                        !.verify.bulkFiles = <<>>,
                        !.verify.results = <<>>,
                        !.toast = Toast("success", "Bulk Verification Complete",
                                      Text("Verified files")),
                        !.kind = NoError]
    /\ UNCHANGED chain

\* The status line of one bulk result.
BulkStatus(result) ==
    IF result.exists /\ ~result.revoked THEN "VERIFIED"
    ELSE IF result.revoked THEN "REVOKED"
    ELSE "NOT REGISTERED"

NextBulk ==
    \/ \E sender \in Senders, hash \in Hashes \ {ZeroHash} : OtherRegister(sender, hash)
    \/ \E sender \in Senders, hash \in Hashes \ {ZeroHash} : OtherRevoke(sender, hash)
    \/ \E files \in BulkInputs : handleBulkVerify(files)
    \/ BulkFileVerified
    \/ BulkFileFailed
    \/ BulkCompleted

SpecBulk == Init /\ [][NextBulk]_vars

\* C26: bulk verification reports every file. A completed handleBulkVerify
\* yields one result per input file, in input order, whatever failed on the
\* way, and a file is reported as not registered (exists = false, 'NOT
\* REGISTERED') only when its hash had no record on chain.
C26_BulkReportsEveryFile ==
    ui.verify.bulkInput # <<>>
      => /\ Len(ui.verify.bulkResults) = Len(ui.verify.bulkInput)
         /\ \A i \in DOMAIN ui.verify.bulkResults :
               LET result == ui.verify.bulkResults[i]
               IN  /\ result.fileName = ui.verify.bulkInput[i]
                   /\ (~result.exists \/ BulkStatus(result) = "NOT REGISTERED")
                         => ~result.registered

\* C31: RegisterPanel file/hash consistency. Whenever hashHex is non-empty it
\* is the hash of the file shown as selected, and isDuplicate is set only for
\* a held hash that has a record, also when files are dropped while an
\* earlier processFile call is in flight.
C31_HashOfSelectedFile ==
    /\ ui.register.hashHex # NoHash
          => /\ ui.register.file # NoFile
             /\ ui.register.hashHex = computeFileHash(ui.register.file)
    /\ ui.register.isDuplicate
          => /\ ui.register.hashHex # NoHash
             /\ records[ui.register.hashHex].exists

\* A processFile call of RegisterPanel is between its start and its finally.
ProcessFileRunning == \E file \in Files : ui.register.task[file] # "idle"

\* C32: in RegisterPanel the register action is unavailable (the Register
\* button is disabled) whenever a hash computation or duplicate check started
\* by processFile is still in progress.
C32_NoRegisterWhileHashing == ProcessFileRunning => RegisterDisabled

\* C33: VerifyPanel result consistency. Whenever a verify result for an
\* existing record is displayed, and whenever a certificate has been
\* generated, its fields are those of the on-chain record of the hash of the
\* selected file (the file whose name is in the certificate), also when a
\* file is selected or dropped while handleVerify awaits getRecord. (Of the
\* fields, the ones that later transactions cannot change are compared:
\* existence and owner always, revoked once set.)
C33_ResultOfSelectedFile ==
    /\ (ui.verify.verifyResult.set /\ ui.verify.verifyResult.exists)
          => /\ ui.verify.file # NoFile
             /\ LET record == records[computeFileHash(ui.verify.file)]
                IN  /\ record.exists
                    /\ record.owner = ui.verify.verifyResult.owner
                    /\ ui.verify.verifyResult.revoked => record.revoked
    /\ ui.verify.certificate.issued
          => /\ ui.verify.certificate.fileName # NoFile
             /\ ui.verify.certificate.hash =
                    computeFileHash(ui.verify.certificate.fileName)
             /\ LET record == records[ui.verify.certificate.hash]
                IN  /\ record.exists
                    /\ record.owner = ui.verify.certificate.owner

\* C34: RecordsPanel offers the Revoke button only for records the connected
\* account can revoke. For every listed hash showing the button, revokeHash
\* sent by the current signer would succeed.
C34_RevokeButtonOnlyRevocable ==
    \A hash \in ui.records.mine :
        revokeHash(records, events, Me, now, hash).ok

(***************************************************************************)
(* RegisterPanel alone, with the note the user has typed as form state.    *)
(***************************************************************************)
\* onChange of the note input (disabled while registering).
setNote(note) ==
    /\ ~ui.register.isRegistering
    /\ note \in {EmptyNote, NoteAccent80}
    /\ note # ui.register.note
    /\ ui' = [ui EXCEPT !.register.note = note]
    /\ UNCHANGED chain

\* A click on Register with the note in the form.
RegisterClick ==
    /\ ui.register.hashHex # NoHash
    /\ handleRegister(ui.register.note)

NextRegister ==
    \/ \E sender \in Senders, hash \in Hashes \ {ZeroHash} : OtherRegister(sender, hash)
    \/ \E file \in Files : handleFileChange(file)
    \/ \E file \in Files : handleDrop(file)
    \/ \E file \in Files : HashComputed(file)
    \/ \E file \in Files : DuplicateChecked(file)
    \/ \E file \in Files : ProcessFileFailed(file)
    \/ \E note \in PanelNotes : setNote(note)
    \/ RegisterClick
    \/ RegisterRejected
    \/ RegisterMined

SpecRegister == Init /\ [][NextRegister]_vars

\* The form of RegisterPanel.
FormState == <<ui.register.file, ui.register.hashHex, ui.register.note>>

\* handleRegister ended without a registration: the form and refreshTrigger
\* are as before and isRegistering is false.
RegisterFailedOutcome ==
    /\ FormState' = FormState
    /\ ui'.refreshTrigger = ui.refreshTrigger
    /\ ~ui'.register.isRegistering

\* handleRegister ended with a registration: the form is reset, onSuccess ran
\* once, isRegistering is false.
RegisterSucceededOutcome ==
    /\ FormState' = <<NoFile, NoHash, EmptyNote>>
    /\ ui'.refreshTrigger = ui.refreshTrigger + 1
    /\ ~ui'.register.isRegistering

HashingStarted(file) ==
    /\ ui.register.task[file] = "idle"
    /\ ui' = [ui EXCEPT !.register.file = file,
                        !.register.hashHex = NoHash,
                        !.register.isDuplicate = FALSE,
                        !.register.isHashing = TRUE,
                        !.register.task[file] = "hashing",
                        !.register.progressInterval[file] = TRUE]
    /\ UNCHANGED chain

\* computeFileHash returned: clearInterval, setHashHex.
HashingReturned(file) ==
    /\ ui.register.task[file] = "hashing"
    /\ ui' = [ui EXCEPT !.register.hashHex = computeFileHash(file),
                        !.register.task[file] = "checking",
                        !.register.progressInterval[file] = FALSE]
    /\ UNCHANGED chain

\* computeFileHash threw: catch and finally; clearInterval is skipped.
HashingThrew(file) ==
    /\ ui.register.task[file] = "hashing"
    /\ ProcessFileFailed(file)

\* isHashRegistered returned or threw.
CheckReturned(file) ==
    /\ ui.register.task[file] = "checking"
    /\ DuplicateChecked(file)

CheckThrew(file) ==
    /\ ui.register.task[file] = "checking"
    /\ ProcessFileFailed(file)

\* VerifyPanel.processFile up to await computeFileHash, setInterval included.
VerifyHashingStarted(file) ==
    /\ ui.verify.task[file] = "idle"
    /\ ui' = [ui EXCEPT !.verify.file = file,
                        !.verify.hashHex = NoHash,
                        !.verify.verifyResult = NoResult,
                        !.verify.isHashing = TRUE,
                        !.verify.task[file] = "hashing",
                        !.verify.progressInterval[file] = TRUE]
    /\ UNCHANGED chain

\* computeFileHash returned: clearInterval, setHashHex, finally.
VerifyHashingReturned(file) ==
    /\ ui.verify.task[file] = "hashing"
    /\ ui' = [ui EXCEPT !.verify.hashHex = computeFileHash(file),
                        !.verify.isHashing = FALSE,
                        !.verify.task[file] = "idle",
                        !.verify.progressInterval[file] = FALSE]
    /\ UNCHANGED chain

\* computeFileHash threw: catch and finally; clearInterval is skipped.
VerifyHashingThrew(file) ==
    /\ file \in Files
    /\ VerifyHashFailed(file)

NextHashing ==
    \/ \E sender \in Senders, hash \in Hashes \ {ZeroHash} : OtherRegister(sender, hash)
    \/ \E file \in Files : HashingStarted(file)
    \/ \E file \in Files : HashingReturned(file)
    \/ \E file \in Files : HashingThrew(file)
    \/ \E file \in Files : CheckReturned(file)
    \/ \E file \in Files : CheckThrew(file)
    \/ \E file \in Files : VerifyHashingStarted(file)
    \/ \E file \in Files : VerifyHashingReturned(file)
    \/ \E file \in Files : VerifyHashingThrew(file)

SpecHashing == Init /\ [][NextHashing]_vars

\* C36: no interval keeps updating hashingProgress after its processFile call
\* has ended, whether computeFileHash succeeded or threw: a progress interval
\* runs only while a processFile call for its file is in progress, and
\* isHashing is false when no call is.
C36_TimersEndWithTheirCall ==
    /\ \A file \in Files :
          /\ ui.register.progressInterval[file] => ui.register.task[file] # "idle"
          /\ ui.verify.progressInterval[file] => ui.verify.task[file] # "idle"
    /\ (\A file \in Files : ui.register.task[file] = "idle") => ~ui.register.isHashing
    /\ (\A file \in Files : ui.verify.task[file] = "idle") => ~ui.verify.isHashing

(***************************************************************************)
(* App and the wallet: connection state.                                   *)
(***************************************************************************)
\* The wallet fires accountsChanged with the account it now exposes (none for
\* ZeroAddress): handleAccountsChanged, which for an account starts
\* checkConnection.
handleAccountsChanged(account) ==
    /\ account # ui.app.wallet
    /\ ui' = IF account = ZeroAddress
             THEN [ui EXCEPT !.app.wallet = account,
                             !.app.walletConnected = FALSE,
                             !.app.address = ZeroAddress,
                             !.app.chainId = NoChainId,
                             !.app.disconnected = TRUE]
             ELSE [ui EXCEPT !.app.wallet = account,
                             !.app.checks = @ \cup {[pc |-> "listAccounts",
                                                     address |-> ZeroAddress]},
                             !.app.disconnected = FALSE]
    /\ UNCHANGED chain

\* checkConnection: listAccounts returned.  Without an account the call ends;
\* with one it takes the signer's address and asks for the network.
AccountsListed(check) ==
    /\ check.pc = "listAccounts"
    /\ ui' = [ui EXCEPT !.app.checks =
                 IF ui.app.wallet = ZeroAddress THEN @ \ {check}
                 ELSE (@ \ {check}) \cup {[pc |-> "getNetwork",
                                           address |-> ui.app.wallet]}]
    /\ UNCHANGED chain

\* checkConnection: getNetwork returned; the three setters.
NetworkReturned(check) ==
    /\ check.pc = "getNetwork"
    /\ ui' = [ui EXCEPT !.app.checks = @ \ {check},
                        !.app.address = check.address,
                        !.app.chainId = LocalChainId,
                        !.app.walletConnected = TRUE]
    /\ UNCHANGED chain

\* checkConnection: an awaited call threw; the catch block logs.
ConnectionCheckFailed(check) ==
    /\ check \in ui.app.checks
    /\ ui' = [ui EXCEPT !.app.checks = @ \ {check}]
    /\ UNCHANGED chain

\* A click on Connect Wallet, approved in the wallet for account.
handleConnect(account) ==
    /\ ~ui.app.walletConnected
    /\ ui.app.wallet \in {ZeroAddress, account}
    /\ ui' = [ui EXCEPT !.app.wallet = account,
                        !.app.address = account,
                        !.app.chainId = LocalChainId,
                        !.app.walletConnected = TRUE,
                        !.app.disconnected = FALSE,
                        !.toast = Toast("success", "Connected",
                                      Text("Wallet connected successfully")),
                        !.kind = NoError]
    /\ UNCHANGED chain

\* A click on Connect Wallet, declined: the catch block of handleConnect.
ConnectFailed ==
    /\ ~ui.app.walletConnected
    /\ ui' = [ui EXCEPT !.toast = Toast("error", "Connection Failed",
                                      Text("error.message")),
                        !.kind = NoError]
    /\ ui' # ui
    /\ UNCHANGED chain

NextWallet ==
    \/ \E account \in Senders \cup {ZeroAddress} : handleAccountsChanged(account)
    \/ \E check \in ui.app.checks : AccountsListed(check)
    \/ \E check \in ui.app.checks : NetworkReturned(check)
    \/ \E check \in ui.app.checks : ConnectionCheckFailed(check)
    \/ \E account \in Senders : handleConnect(account)
    \/ ConnectFailed

SpecWallet == Init /\ [][NextWallet]_vars

\* C37: wallet disconnect is final until reconnect. After an accountsChanged
\* event with no account, and until a later connect or accountsChanged event
\* with an account, the App is disconnected: walletConnected = false,
\* address = '', chainId = null.
C37_DisconnectIsFinal ==
    ui.app.disconnected
      => /\ ~ui.app.walletConnected
         /\ ui.app.address = ZeroAddress
         /\ ui.app.chainId = NoChainId

====
